---- MODULE Spec2Model ----
(***************************************************************************)
(* A model of the Wwise SoundBank codec of package bnk: the section        *)
(* decoders and encoders of bnk/section.go over a byte-level source, the   *)
(* container operations (NewFile, WriteTo, ReplaceWems, ReplaceLoopOf) and *)
(* the metadata objects of the HIRC section; and, as a second              *)
(* specification, the loop tool bar of the viewer window of                *)
(* gui/viewer/viewer.go.                                                   *)
(*                                                                         *)
(* Bytes are naturals in 0..255, a file is a sequence of bytes, and every  *)
(* multi-byte field is little-endian, as binary.Read/binary.Write with     *)
(* binary.LittleEndian decode and encode it.                               *)
(***************************************************************************)
EXTENDS Integers, Sequences, FiniteSets, TLC

VARIABLES
    file,      \* the bytes of the source being parsed (the opened file)
    input,     \* the structure the opened file was built from (history)
    pos,       \* offset of the sequential reader sr inside NewFile
    pc,        \* "parse" | "ready" | "error" | "panic"
    sections,  \* File.sections: the parsed sections, in file order
    heap,      \* the wwise.WemDescriptor records the DIDX allocates
    outs,      \* what WriteTo wrote, one entry per call since the last mutation
    pre,       \* the container right before the last mutating call (history)
    last,      \* the last mutating call and its arguments (history)
    nmut,      \* mutating calls so far
    replaced,  \* whether ReplaceWems has been called (history)
    gen,       \* 0: parsed from the opened file; 1: parsed from written bytes
    wv         \* the WwiseViewerWindow: its widgets, its table, its last call

vars == <<file, input, pos, pc, sections, heap, outs, pre, last, nmut, replaced,
          gen, wv>>

---------------------------------------------------------------------------
(* Bounds of the model. *)

\* The most wems a generated SoundBank embeds.
MaxWems == 3
\* The most objects a generated HIRC section holds.
MaxObjs == 2
\* The most mutating calls (ReplaceWems, ReplaceLoopOf) per run.
MaxMut == 2
\* The most WriteTo calls between two mutations.
MaxWrites == 2
\* The rows of the viewer's table, one per wem of the container it shows.
MaxRows == 2

---------------------------------------------------------------------------
(* Program constants. *)

SECTION_HEADER_BYTES == 8
BKHD_SECTION_BYTES == 8
DIDX_ENTRY_BYTES == 12
OBJECT_COUNT_BYTES == 4
\* The byte boundary wem offsets are aligned to.
wemAlignmentBytes == 16
\* The type tag of the one recognised object, and the size of its body:
\* a wem descriptor (12 bytes) and a loop structure (1 + 4 bytes).
soundObjectId == 2
OBJECT_DESCRIPTOR_BYTES == 9
SOUND_BODY_BYTES == 17
\* LoopValue.Value of a loop that never ends.
InfiniteLoops == 0

\* The modulus of uint32 arithmetic. TLC's integers are 32-bit signed, so
\* the width is scaled to 30 bits: every file of the model is far shorter,
\* and a length that wraps around stays beyond the end of any of them.
U32 == 1073741824

bkhdHeaderId == <<66, 75, 72, 68>>
didxHeaderId == <<68, 73, 68, 88>>
dataHeaderId == <<68, 65, 84, 65>>
hircHeaderId == <<72, 73, 82, 67>>
\* A tag no constructor recognises ("STID").
stidHeaderId == <<83, 84, 73, 68>>

---------------------------------------------------------------------------
(* Bytes. *)

Min(a, b) == IF a < b THEN a ELSE b
Max(a, b) == IF a < b THEN b ELSE a

\* binary.Write of a uint32, little-endian.
LE32(n) ==
    << n % 256, (n \div 256) % 256, (n \div 65536) % 256,
       (n \div 16777216) % 256 >>

\* binary.Read of a uint32 at 0-based offset p of b, little-endian.
U32At(b, p) ==
    b[p + 1] + 256 * b[p + 2] + 65536 * b[p + 3] + 16777216 * b[p + 4]

\* The bytes of b at 0-based offsets [from, to), cut to what b holds.
Slice(b, from, to) ==
    IF to <= from \/ from >= Len(b) THEN << >>
    ELSE SubSeq(b, from + 1, Min(to, Len(b)))

\* n bytes of value v.
Fill(v, n) == [i \in 1..n |-> v]

RECURSIVE Concat(_)
Concat(ss) == IF ss = << >> THEN << >> ELSE Head(ss) \o Concat(Tail(ss))

RECURSIVE SumSeq(_)
SumSeq(s) == IF s = << >> THEN 0 ELSE Head(s) + SumSeq(Tail(s))

\* The next multiple of the alignment at or after n.
AlignUp(n) ==
    ((n + wemAlignmentBytes - 1) \div wemAlignmentBytes) * wemAlignmentBytes

---------------------------------------------------------------------------
(* util.ResettingReader: a window of n bytes at offset off of a source,    *)
(* with its own cursor. A read that reaches the end of the window seeks    *)
(* back to its start. src -1 is the opened file; src v >= 0 is a source    *)
(* outside it (a replacement wem, fresh padding) whose bytes all have      *)
(* value v.                                                                *)

FILE_SRC == -1

NewResettingReader(src, off, n) ==
    [src |-> src, off |-> off, len |-> n, cur |-> 0]

\* The window's size, Size(): the declared length, which may be negative.
Size(r) == r.len

\* The bytes a read to EOF returns from the reader's cursor on.
Remaining(r) ==
    IF r.src = FILE_SRC
      THEN Slice(file, r.off + r.cur, r.off + r.len)
      ELSE Fill(r.src, Max(r.len - r.cur, 0))

\* io.Copy(w, r): what is written, and the reader afterwards.
Copy(r) == [data |-> Remaining(r), r |-> [r EXCEPT !.cur = 0]]

---------------------------------------------------------------------------
(* The SoundBank files the model opens. A file is built from a structure:  *)
(* the BKHD trailer, the wems with their offsets into the DATA body, the   *)
(* HIRC objects, and where an unrecognised section sits. The bytes are     *)
(* laid out as the decoders of section.go read them.                       *)

\* The values the generated files carry where the codec does not care:
\* the padding byte, the byte the first replacement wem is filled with,
\* the bank's version and id.
Sample == [pad |-> 90, fill |-> 60, version |-> 120, bankId |-> 70000]

\* The id of the k-th wem, and the byte its payload is filled with.
WemIdOf(k) == 299 + k
WemByte(k) == 100 + k

SoundSpec(w, loops, count) ==
    [kind |-> "sound", type |-> soundObjectId, oid |-> WemIdOf(w) + 1,
     wem |-> WemIdOf(w), loops |-> loops, count |-> count]

UnknownSpec(body) ==
    [kind |-> "unknown", type |-> 7, oid |-> 900, body |-> body]

\* The offsets of wems of the given lengths under a layout:
\*   "tight"   each wem on the next 16-byte boundary, nothing after the last
\*   "packed"  no padding at all
\*   "loose"   a further 16 bytes of padding after every wem
\*   "shifted" as tight, but the first wem does not start the DATA body
\*   "overlap" every wem at the start of the DATA body, over one another
RECURSIVE Offsets(_, _, _)
Offsets(lens, layout, at) ==
    IF lens = << >> THEN << >>
    ELSE LET end == at + Head(lens)
             next == CASE layout = "packed" -> end
                       [] layout = "loose" -> AlignUp(end) + wemAlignmentBytes
                       [] layout = "overlap" -> at
                       [] OTHER -> AlignUp(end)
         IN  << at >> \o Offsets(Tail(lens), layout, next)

FirstOffset(layout) == IF layout = "shifted" THEN wemAlignmentBytes ELSE 0

DataLength(lens, layout) ==
    IF lens = << >> THEN 0
    ELSE LET offs == Offsets(lens, layout, FirstOffset(layout))
             end == offs[Len(lens)] + lens[Len(lens)]
         IN  IF layout = "loose" THEN AlignUp(end) + wemAlignmentBytes ELSE end

\* ids: the wem ids, in file order (a repeated id makes the file corrupt).
\* bkhdLen: the Length the BKHD header declares, its body's size.
\* junk, slack: bytes the DIDX and HIRC headers count after the last entry
\* and after the last object.
MkInput(trailer, ids, lens, layout, junk, objs, unk) ==
    [trailer |-> trailer,
     bkhdLen |-> BKHD_SECTION_BYTES + Len(trailer),
     wems |-> [k \in 1..Len(lens) |->
                 [id |-> ids[k], len |-> lens[k],
                  off |-> Offsets(lens, layout, FirstOffset(layout))[k]]],
     dataLen |-> DataLength(lens, layout),
     layout |-> layout,
     junk |-> junk,
     slack |-> 0,
     objs |-> objs,
     unk |-> unk]

EncHeader(tag, length) == tag \o LE32(length)

EncBKHD(in) ==
    EncHeader(bkhdHeaderId, in.bkhdLen)
      \o LE32(Sample.version) \o LE32(Sample.bankId) \o in.trailer

EncDescriptor(w) == LE32(w.id) \o LE32(w.off) \o LE32(w.len)

EncDIDX(in) ==
    EncHeader(didxHeaderId, DIDX_ENTRY_BYTES * Len(in.wems) + in.junk)
      \o Concat([k \in 1..Len(in.wems) |-> EncDescriptor(in.wems[k])])
      \o Fill(Sample.pad, in.junk)

\* The DATA body: every byte belongs to the last wem that starts at or
\* before it and covers it, or is padding.
DataByte(in, p) ==
    LET owners == {k \in 1..Len(in.wems) :
                      in.wems[k].off <= p /\ p < in.wems[k].off + in.wems[k].len}
    IN  IF owners = {} THEN Sample.pad
        ELSE WemByte(CHOOSE k \in owners : \A j \in owners : j <= k)

EncDATA(in) ==
    EncHeader(dataHeaderId, in.dataLen)
      \o [i \in 1..in.dataLen |-> DataByte(in, i - 1)]

\* The wem descriptor a sound object carries is a copy of the DIDX entry
\* with that id (zeros when the bank does not embed the wem).
WemCopy(in, id) ==
    LET ks == {k \in 1..Len(in.wems) : in.wems[k].id = id}
    IN  IF ks = {} THEN [id |-> id, off |-> 0, len |-> 0]
        ELSE in.wems[CHOOSE k \in ks : \A j \in ks : k <= j]

EncLoop(loops, count) == << IF loops THEN 1 ELSE 0 >> \o LE32(count)

EncObject(in, o) ==
    IF o.kind = "sound"
      THEN << o.type >> \o LE32(o.oid) \o LE32(SOUND_BODY_BYTES)
             \o EncDescriptor(WemCopy(in, o.wem)) \o EncLoop(o.loops, o.count)
      ELSE << o.type >> \o LE32(o.oid) \o LE32(Len(o.body)) \o o.body

EncObjects(in) == Concat([k \in 1..Len(in.objs) |-> EncObject(in, in.objs[k])])

EncHIRC(in) ==
    EncHeader(hircHeaderId, OBJECT_COUNT_BYTES + Len(EncObjects(in)) + in.slack)
      \o LE32(Len(in.objs)) \o EncObjects(in)
      \o Fill(Sample.pad, in.slack)

EncSTID == EncHeader(stidHeaderId, 3) \o << 1, 2, 3 >>

\* The file: BKHD, [STID], DIDX and DATA (when the bank embeds wems), HIRC,
\* [STID].
EncFile(in) ==
    EncBKHD(in)
      \o (IF in.unk = "mid" THEN EncSTID ELSE << >>)
      \o (IF in.wems = << >> THEN << >> ELSE EncDIDX(in) \o EncDATA(in))
      \o EncHIRC(in)
      \o (IF in.unk = "end" THEN EncSTID ELSE << >>)

---------------------------------------------------------------------------
(* The section decoders of section.go. Each takes the header just read and *)
(* the offset p of sr (the start of the section body) and yields           *)
(*   st   "ok" | "error" (an error is returned) | "panic"                  *)
(*   sec  the section built                                                *)
(*   pos  the offset sr is left at.                                        *)

\* binary.Read of a SectionHeader at offset p: 4 bytes of tag, a uint32.
ReadHeader(p) ==
    [Identifier |-> Slice(file, p, p + 4), Length |-> U32At(file, p + 4)]

\* binary.Read of a wwise.WemDescriptor at offset p.
ReadWemDescriptor(p) ==
    [WemId |-> U32At(file, p), Offset |-> U32At(file, p + 4),
     Length |-> U32At(file, p + 8)]

Failed(st, p) == [st |-> st, sec |-> << >>, pos |-> p, heap |-> << >>]

NewBankHeaderSection(hdr, p) ==
    IF p + BKHD_SECTION_BYTES > Len(file) THEN Failed("error", p)
    ELSE LET desc == [Version |-> U32At(file, p), BankId |-> U32At(file, p + 4)]
             knownOffset == p + BKHD_SECTION_BYTES
             remaining == (hdr.Length - BKHD_SECTION_BYTES) % U32
         IN  [st |-> "ok",
              sec |-> [kind |-> "BKHD", Header |-> hdr, Descriptor |-> desc,
                       RemainingReader |->
                         NewResettingReader(FILE_SRC, knownOffset, remaining)],
              pos |-> knownOffset + remaining,
              heap |-> << >>]

\* A variant of the loop that does not look the id up before it adds it.
RECURSIVE DataIndexEntries_NoCheck(_, _, _, _, _, _)
DataIndexEntries_NoCheck(i, wemCount, p, ids, map, hp) ==
    IF i >= wemCount THEN [st |-> "ok", ids |-> ids, map |-> map, hp |-> hp, pos |-> p]
    ELSE IF p + DIDX_ENTRY_BYTES > Len(file)
      THEN [st |-> "error", ids |-> ids, map |-> map, hp |-> hp, pos |-> p]
    ELSE LET desc == ReadWemDescriptor(p)
         IN  DataIndexEntries_NoCheck(i + 1, wemCount, p + DIDX_ENTRY_BYTES,
                 Append(ids, desc.WemId),
                 (desc.WemId :> Len(hp) + 1) @@ map,
                 Append(hp, desc))

NewDataIndexSection_NoCheck(hdr, p, hp) ==
    LET wemCount == hdr.Length \div DIDX_ENTRY_BYTES
        r == DataIndexEntries_NoCheck(0, wemCount, p, << >>, << >>, hp)
    IN  IF r.st # "ok" THEN Failed(r.st, r.pos)
        ELSE [st |-> "ok",
              sec |-> [kind |-> "DIDX", Header |-> hdr, WemCount |-> wemCount,
                       WemIds |-> r.ids, DescriptorMap |-> r.map],
              pos |-> r.pos,
              heap |-> r.hp]

\* The loop of NewDataIndexSection from entry i on: ids and map are
\* sec.WemIds and sec.DescriptorMap so far, hp the descriptors allocated.
RECURSIVE DataIndexEntries(_, _, _, _, _, _)
DataIndexEntries(i, wemCount, p, ids, map, hp) ==
    IF i >= wemCount THEN [st |-> "ok", ids |-> ids, map |-> map, hp |-> hp, pos |-> p]
    ELSE IF p + DIDX_ENTRY_BYTES > Len(file)
      THEN [st |-> "error", ids |-> ids, map |-> map, hp |-> hp, pos |-> p]
    ELSE LET desc == ReadWemDescriptor(p)
         IN  IF desc.WemId \in DOMAIN map
               THEN [st |-> "panic", ids |-> ids, map |-> map, hp |-> hp,
                     pos |-> p + DIDX_ENTRY_BYTES]
               ELSE DataIndexEntries(i + 1, wemCount, p + DIDX_ENTRY_BYTES,
                        Append(ids, desc.WemId),
                        (desc.WemId :> Len(hp) + 1) @@ map,
                        Append(hp, desc))

\* A descriptor is a record of the heap hp; DescriptorMap and every Wem
\* hold its address (an index of hp), as the code holds a pointer to it.
NewDataIndexSection(hdr, p, hp) ==
    LET wemCount == hdr.Length \div DIDX_ENTRY_BYTES
        r == DataIndexEntries(0, wemCount, p, << >>, << >>, hp)
    IN  IF r.st # "ok" THEN Failed(r.st, r.pos)
        ELSE [st |-> "ok",
              sec |-> [kind |-> "DIDX", Header |-> hdr, WemCount |-> wemCount,
                       WemIds |-> r.ids, DescriptorMap |-> r.map],
              pos |-> r.pos,
              heap |-> r.hp]

\* A variant that measures the last wem's padding up to hdr.Length taken
\* as an offset into the source, not into the DATA body.
NewDataSection_LastFromZero(hdr, p, idx, hp) ==
    IF idx = << >> THEN Failed("panic", p)
    ELSE
    LET dataOffset == p
        n == Len(idx.WemIds)
        wem(i) ==
            LET desc == hp[idx.DescriptorMap[idx.WemIds[i]]]
                wemStartOffset == dataOffset + desc.Offset
                wemEndOffset == wemStartOffset + desc.Length
                nextOffset ==
                    IF i = n THEN hdr.Length
                    ELSE dataOffset + hp[idx.DescriptorMap[idx.WemIds[i + 1]]].Offset
                remaining == nextOffset - wemEndOffset
            IN  [Reader |-> NewResettingReader(FILE_SRC, wemStartOffset, desc.Length),
                 Descriptor |-> idx.DescriptorMap[idx.WemIds[i]],
                 Padding |-> NewResettingReader(FILE_SRC, wemEndOffset, remaining)]
    IN  [st |-> "ok",
         sec |-> [kind |-> "DATA", Header |-> hdr, DataStart |-> dataOffset,
                  Wems |-> [i \in 1..n |-> wem(i)]],
         pos |-> p + hdr.Length,
         heap |-> hp]

\* A variant that takes every wem for the last one (the test i <= n - 1 of
\* the loop body in place of i = n - 1): each padding runs to the end of
\* the section.
NewDataSection_AlwaysLast(hdr, p, idx, hp) ==
    IF idx = << >> THEN Failed("panic", p)
    ELSE
    LET dataOffset == p
        n == Len(idx.WemIds)
        wem(i) ==
            LET desc == hp[idx.DescriptorMap[idx.WemIds[i]]]
                wemStartOffset == dataOffset + desc.Offset
                wemEndOffset == wemStartOffset + desc.Length
                nextOffset == dataOffset + hdr.Length
                remaining == nextOffset - wemEndOffset
            IN  [Reader |-> NewResettingReader(FILE_SRC, wemStartOffset, desc.Length),
                 Descriptor |-> idx.DescriptorMap[idx.WemIds[i]],
                 Padding |-> NewResettingReader(FILE_SRC, wemEndOffset, remaining)]
    IN  [st |-> "ok",
         sec |-> [kind |-> "DATA", Header |-> hdr, DataStart |-> dataOffset,
                  Wems |-> [i \in 1..n |-> wem(i)]],
         pos |-> p + hdr.Length,
         heap |-> hp]

\* A variant in which every wem gets a copy of its descriptor, not the
\* descriptor the DataIndexSection holds.
NewDataSection_CopiedDescriptor(hdr, p, idx, hp) ==
    IF idx = << >> THEN Failed("panic", p)
    ELSE
    LET dataOffset == p
        n == Len(idx.WemIds)
        wem(i) ==
            LET desc == hp[idx.DescriptorMap[idx.WemIds[i]]]
                wemStartOffset == dataOffset + desc.Offset
                wemEndOffset == wemStartOffset + desc.Length
                nextOffset ==
                    IF i = n THEN dataOffset + hdr.Length
                    ELSE dataOffset + hp[idx.DescriptorMap[idx.WemIds[i + 1]]].Offset
                remaining == nextOffset - wemEndOffset
            IN  [Reader |-> NewResettingReader(FILE_SRC, wemStartOffset, desc.Length),
                 Descriptor |-> Len(hp) + i,
                 Padding |-> NewResettingReader(FILE_SRC, wemEndOffset, remaining)]
    IN  [st |-> "ok",
         sec |-> [kind |-> "DATA", Header |-> hdr, DataStart |-> dataOffset,
                  Wems |-> [i \in 1..n |-> wem(i)]],
         pos |-> p + hdr.Length,
         heap |-> hp \o [i \in 1..n |-> hp[idx.DescriptorMap[idx.WemIds[i]]]]]

\* idx is the DataIndexSection parsed before (<< >> when there is none:
\* the nil pointer is dereferenced, a panic).
NewDataSection(hdr, p, idx, hp) ==
    IF idx = << >> THEN Failed("panic", p)
    ELSE
    LET dataOffset == p
        n == Len(idx.WemIds)
        wem(i) ==
            LET desc == hp[idx.DescriptorMap[idx.WemIds[i]]]
                wemStartOffset == dataOffset + desc.Offset
                wemEndOffset == wemStartOffset + desc.Length
                nextOffset ==
                    IF i = n THEN dataOffset + hdr.Length
                    ELSE dataOffset + hp[idx.DescriptorMap[idx.WemIds[i + 1]]].Offset
                remaining == nextOffset - wemEndOffset
            IN  [Reader |-> NewResettingReader(FILE_SRC, wemStartOffset, desc.Length),
                 Descriptor |-> idx.DescriptorMap[idx.WemIds[i]],
                 Padding |-> NewResettingReader(FILE_SRC, wemEndOffset, remaining)]
    IN  [st |-> "ok",
         sec |-> [kind |-> "DATA", Header |-> hdr, DataStart |-> dataOffset,
                  Wems |-> [i \in 1..n |-> wem(i)]],
         pos |-> p + hdr.Length,
         heap |-> hp]

\* A variant that anchors the reader where sr is after the seek over the
\* body, not before it.
NewUnknownSection_AfterSeek(hdr, p) ==
    LET dataOffset == p + hdr.Length
    IN  [st |-> "ok",
         sec |-> [kind |-> "UNKN", Header |-> hdr,
                  Reader |-> NewResettingReader(FILE_SRC, dataOffset, hdr.Length)],
         pos |-> p + hdr.Length,
         heap |-> << >>]

NewUnknownSection(hdr, p) ==
    LET dataOffset == p
    IN  [st |-> "ok",
         sec |-> [kind |-> "UNKN", Header |-> hdr,
                  Reader |-> NewResettingReader(FILE_SRC, dataOffset, hdr.Length)],
         pos |-> p + hdr.Length,
         heap |-> << >>]

---------------------------------------------------------------------------
(* The objects of the HIRC section. An object starts with an               *)
(* ObjectDescriptor {Type byte, ObjectId uint32, Length uint32}, Length    *)
(* the size of the body after it. The body of a sound object is a wem      *)
(* descriptor and a loop structure {loops byte, loopCount uint32}; any     *)
(* other body is kept as raw bytes.                                        *)

ReadObjectDescriptor(p) ==
    [Type |-> file[p + 1], ObjectId |-> U32At(file, p + 1),
     Length |-> U32At(file, p + 5)]

\* at: the offset of the object's first byte in the source (history).
NewSfxVoiceSoundObject(desc, p) ==
    [kind |-> "sound", Descriptor |-> desc,
     WemDescriptor |-> ReadWemDescriptor(p),
     Structure |-> [loops |-> file[p + DIDX_ENTRY_BYTES + 1] # 0,
                    loopCount |-> U32At(file, p + DIDX_ENTRY_BYTES + 1)],
     at |-> p - OBJECT_DESCRIPTOR_BYTES]

NewUnknownObject(desc, p) ==
    [kind |-> "unknown", Descriptor |-> desc,
     Data |-> Slice(file, p, p + desc.Length),
     at |-> p - OBJECT_DESCRIPTOR_BYTES]

WriteObjectDescriptor(desc) ==
    << desc.Type >> \o LE32(desc.ObjectId) \o LE32(desc.Length)

WriteWemDescriptor(d) == LE32(d.WemId) \o LE32(d.Offset) \o LE32(d.Length)

\* Object.WriteTo.
ObjectWriteTo(obj) ==
    IF obj.kind = "sound"
      THEN WriteObjectDescriptor(obj.Descriptor)
             \o WriteWemDescriptor(obj.WemDescriptor)
             \o << IF obj.Structure.loops THEN 1 ELSE 0 >>
             \o LE32(obj.Structure.loopCount)
      ELSE WriteObjectDescriptor(obj.Descriptor) \o obj.Data

\* The loop of NewObjectHierarchySection from object i on. wemToObject maps
\* a wem id to the position in objects of the sound object registered
\* for it (the code holds a pointer to that object).
RECURSIVE HierarchyObjects(_, _, _, _, _, _)
HierarchyObjects(i, count, p, objects, loopOf, wemToObject) ==
    LET res(st, q) == [st |-> st, objects |-> objects, loopOf |-> loopOf,
                       wemToObject |-> wemToObject, pos |-> q]
    IN
    IF i >= count THEN res("ok", p)
    ELSE IF p + OBJECT_DESCRIPTOR_BYTES > Len(file) THEN res("error", p)
    ELSE
    LET desc == ReadObjectDescriptor(p)
        q == p + OBJECT_DESCRIPTOR_BYTES
    IN  IF desc.Type = soundObjectId
          THEN IF q + SOUND_BODY_BYTES > Len(file) THEN res("error", q)
               ELSE LET obj == NewSfxVoiceSoundObject(desc, q)
                        id == obj.WemDescriptor.WemId
                    IN  HierarchyObjects(i + 1, count, q + SOUND_BODY_BYTES,
                            Append(objects, obj),
                            IF obj.Structure.loops
                              THEN (id :> obj.Structure.loopCount) @@ loopOf
                              ELSE loopOf,
                            (id :> Len(objects) + 1) @@ wemToObject)
          ELSE IF q + desc.Length > Len(file) THEN res("error", q)
               ELSE HierarchyObjects(i + 1, count, q + desc.Length,
                        Append(objects, NewUnknownObject(desc, q)),
                        loopOf, wemToObject)

\* The positions of the sound objects among objs.
SoundObjects(objs) == {k \in 1..Len(objs) : objs[k].kind = "sound"}

\* A variant that registers each sound object in wemToObject under its
\* object id, not under the id of its wem.
NewObjectHierarchySection_ByObjectId(hdr, p) ==
    IF p + OBJECT_COUNT_BYTES > Len(file) THEN Failed("error", p)
    ELSE LET count == U32At(file, p)
             r == HierarchyObjects(0, count, p + OBJECT_COUNT_BYTES,
                                   << >>, << >>, << >>)
             snd == SoundObjects(r.objects)
             oids == {r.objects[k].Descriptor.ObjectId : k \in snd}
         IN  IF r.st # "ok" THEN Failed(r.st, r.pos)
             ELSE [st |-> "ok",
                   sec |-> [kind |-> "HIRC", Header |-> hdr, ObjectCount |-> count,
                            objects |-> r.objects, loopOf |-> r.loopOf,
                            wemToObject |->
                              [o \in oids |->
                                 CHOOSE k \in snd :
                                   /\ r.objects[k].Descriptor.ObjectId = o
                                   /\ \A j \in snd :
                                        r.objects[j].Descriptor.ObjectId = o => j <= k]],
                   pos |-> r.pos,
                   heap |-> << >>]

\* A variant that registers the address of one variable shared by all
\* turns of the loop: every entry of wemToObject ends up at the sound
\* object parsed last.
NewObjectHierarchySection_SharedObject(hdr, p) ==
    IF p + OBJECT_COUNT_BYTES > Len(file) THEN Failed("error", p)
    ELSE LET count == U32At(file, p)
             r == HierarchyObjects(0, count, p + OBJECT_COUNT_BYTES,
                                   << >>, << >>, << >>)
             snd == SoundObjects(r.objects)
         IN  IF r.st # "ok" THEN Failed(r.st, r.pos)
             ELSE [st |-> "ok",
                   sec |-> [kind |-> "HIRC", Header |-> hdr, ObjectCount |-> count,
                            objects |-> r.objects, loopOf |-> r.loopOf,
                            wemToObject |->
                              [w \in DOMAIN r.wemToObject |->
                                 CHOOSE k \in snd : \A j \in snd : j <= k]],
                   pos |-> r.pos,
                   heap |-> << >>]

NewObjectHierarchySection(hdr, p) ==
    IF p + OBJECT_COUNT_BYTES > Len(file) THEN Failed("error", p)
    ELSE LET count == U32At(file, p)
             r == HierarchyObjects(0, count, p + OBJECT_COUNT_BYTES,
                                   << >>, << >>, << >>)
         IN  IF r.st # "ok" THEN Failed(r.st, r.pos)
             ELSE [st |-> "ok",
                   sec |-> [kind |-> "HIRC", Header |-> hdr, ObjectCount |-> count,
                            objects |-> r.objects, loopOf |-> r.loopOf,
                            wemToObject |-> r.wemToObject],
                   pos |-> r.pos,
                   heap |-> << >>]

---------------------------------------------------------------------------
(* The section encoders of section.go. Each yields the bytes written and   *)
(* the section afterwards (io.Copy moves the cursors of its readers).      *)

WriteHeader(hdr) == hdr.Identifier \o LE32(hdr.Length)

\* A variant that copies exactly the declared number of trailer bytes
\* (io.CopyN) and so never reads the reader to its end: the cursor stays
\* where the copy stopped.
BankHeaderSectionWriteTo_CopyN(sec) ==
    LET c == Copy(sec.RemainingReader)
    IN  [out |-> WriteHeader(sec.Header)
                   \o LE32(sec.Descriptor.Version) \o LE32(sec.Descriptor.BankId)
                   \o c.data,
         sec |-> [sec EXCEPT !.RemainingReader.cur =
                    sec.RemainingReader.cur + Len(c.data)]]

BankHeaderSectionWriteTo(sec) ==
    LET c == Copy(sec.RemainingReader)
    IN  [out |-> WriteHeader(sec.Header)
                   \o LE32(sec.Descriptor.Version) \o LE32(sec.Descriptor.BankId)
                   \o c.data,
         sec |-> [sec EXCEPT !.RemainingReader = c.r]]

DataIndexSectionWriteTo(sec, hp) ==
    [out |-> WriteHeader(sec.Header)
               \o Concat([k \in 1..Len(sec.WemIds) |->
                    WriteWemDescriptor(hp[sec.DescriptorMap[sec.WemIds[k]]])]),
     sec |-> sec]

\* A variant that writes every wem and leaves out the padding after it.
DataSectionWriteTo_NoPadding(sec) ==
    LET n == Len(sec.Wems)
        body(k) == Copy(sec.Wems[k].Reader)
    IN  [out |-> WriteHeader(sec.Header) \o Concat([k \in 1..n |-> body(k).data]),
         sec |-> [sec EXCEPT !.Wems =
                    [k \in 1..n |-> [sec.Wems[k] EXCEPT !.Reader = body(k).r]]]]

DataSectionWriteTo(sec) ==
    LET n == Len(sec.Wems)
        body(k) == Copy(sec.Wems[k].Reader)
        padding(k) == Copy(sec.Wems[k].Padding)
    IN  [out |-> WriteHeader(sec.Header)
                   \o Concat([k \in 1..n |-> body(k).data \o padding(k).data]),
         sec |-> [sec EXCEPT !.Wems =
                    [k \in 1..n |-> [sec.Wems[k] EXCEPT !.Reader = body(k).r,
                                                        !.Padding = padding(k).r]]]]

\* A variant that returns from inside the loop, after the first object.
ObjectHierarchySectionWriteTo_FirstOnly(sec) ==
    [out |-> WriteHeader(sec.Header) \o LE32(sec.ObjectCount)
               \o (IF sec.objects = << >> THEN << >>
                   ELSE ObjectWriteTo(sec.objects[1])),
     sec |-> sec]

ObjectHierarchySectionWriteTo(sec) ==
    [out |-> WriteHeader(sec.Header) \o LE32(sec.ObjectCount)
               \o Concat([k \in 1..Len(sec.objects) |-> ObjectWriteTo(sec.objects[k])]),
     sec |-> sec]

UnknownSectionWriteTo(sec) ==
    LET c == Copy(sec.Reader)
    IN  [out |-> WriteHeader(sec.Header) \o c.data,
         sec |-> [sec EXCEPT !.Reader = c.r]]

\* Section.WriteTo, by the section's type.
SectionWriteTo(sec, hp) ==
    CASE sec.kind = "BKHD" -> BankHeaderSectionWriteTo(sec)
      [] sec.kind = "DIDX" -> DataIndexSectionWriteTo(sec, hp)
      [] sec.kind = "DATA" -> DataSectionWriteTo(sec)
      [] sec.kind = "HIRC" -> ObjectHierarchySectionWriteTo(sec)
      [] OTHER -> UnknownSectionWriteTo(sec)

\* File.WriteTo: every section, in file order.
FileWriteTo(secs, hp) ==
    LET w(k) == SectionWriteTo(secs[k], hp)
    IN  [out |-> Concat([k \in 1..Len(secs) |-> w(k).out]),
         secs |-> [k \in 1..Len(secs) |-> w(k).sec]]

---------------------------------------------------------------------------
(* The container, File: its sections in file order, and the section each   *)
(* typed field (IndexSection, DataSection, ObjectSection) points at.       *)

\* The position in secs of the section a typed field of File points at: the
\* last section of that kind parsed, 0 for a nil field.
SectionOf(secs, kind) ==
    LET ks == {k \in 1..Len(secs) : secs[k].kind = kind}
    IN  IF ks = {} THEN 0 ELSE CHOOSE k \in ks : \A j \in ks : j <= k

IndexSection(secs) == SectionOf(secs, "DIDX")
DataSection(secs) == SectionOf(secs, "DATA")
ObjectSection(secs) == SectionOf(secs, "HIRC")

\* File.Wems(): the wems of the DATA section, in file order.
Wems(secs) ==
    IF DataSection(secs) = 0 THEN << >> ELSE secs[DataSection(secs)].Wems

\* The start offsets the wems get when laid out one after the other from
\* the start of the DATA body, each on the next boundary after the one
\* before it.
RECURSIVE LayOut(_, _)
LayOut(lens, at) ==
    IF lens = << >> THEN << >>
    ELSE << at >> \o LayOut(Tail(lens), AlignUp(at + Head(lens)))

\* A variant that takes the 0-based index of a request for a position in
\* the 1-based wem list: the wem after the one named gets the payload.
ReplaceWems_OffByOne(secs, hp, R, newLen, fill) ==
    LET di == DataSection(secs)
        data == secs[di]
        n == Len(data.Wems)
        ptr(k) == data.Wems[k].Descriptor
        len(k) == IF (k - 1) \in R THEN newLen ELSE hp[ptr(k)].Length
        offs == LayOut([k \in 1..n |-> len(k)], 0)
        pad(k) == IF k = n THEN 0 ELSE offs[k + 1] - (offs[k] + len(k))
        wem(k) ==
            [Reader |-> IF k \in R
                          THEN NewResettingReader(fill, 0, newLen)
                          ELSE data.Wems[k].Reader,
             Descriptor |-> ptr(k),
             Padding |-> NewResettingReader(0, 0, pad(k))]
        total == SumSeq([k \in 1..n |-> len(k) + pad(k)])
        ptrs == {ptr(k) : k \in 1..n}
        slot(q) == CHOOSE k \in 1..n : ptr(k) = q
    IN  [secs |-> [secs EXCEPT ![di] =
                     [data EXCEPT !.Wems = [k \in 1..n |-> wem(k)],
                                  !.Header = [data.Header EXCEPT !.Length = total]]],
         heap |-> [q \in 1..Len(hp) |->
                     IF q \in ptrs
                       THEN [hp[q] EXCEPT !.Offset = offs[slot(q)],
                                          !.Length = len(slot(q))]
                       ELSE hp[q]]]

\* File.ReplaceWems(rs...): R holds the indices (0-based) the requests
\* name, newLen the length of each replacement and fill its bytes.
ReplaceWems(secs, hp, R, newLen, fill) ==
    LET di == DataSection(secs)
        data == secs[di]
        n == Len(data.Wems)
        ptr(k) == data.Wems[k].Descriptor
        len(k) == IF (k - 1) \in R THEN newLen ELSE hp[ptr(k)].Length
        offs == LayOut([k \in 1..n |-> len(k)], 0)
        pad(k) == IF k = n THEN 0 ELSE offs[k + 1] - (offs[k] + len(k))
        wem(k) ==
            [Reader |-> IF (k - 1) \in R
                          THEN NewResettingReader(fill, 0, newLen)
                          ELSE data.Wems[k].Reader,
             Descriptor |-> ptr(k),
             Padding |-> NewResettingReader(0, 0, pad(k))]
        total == SumSeq([k \in 1..n |-> len(k) + pad(k)])
        ptrs == {ptr(k) : k \in 1..n}
        slot(q) == CHOOSE k \in 1..n : ptr(k) = q
    IN  [secs |-> [secs EXCEPT ![di] =
                     [data EXCEPT !.Wems = [k \in 1..n |-> wem(k)],
                                  !.Header = [data.Header EXCEPT !.Length = total]]],
         heap |-> [q \in 1..Len(hp) |->
                     IF q \in ptrs
                       THEN [hp[q] EXCEPT !.Offset = offs[slot(q)],
                                          !.Length = len(slot(q))]
                       ELSE hp[q]]]

\* Whether File.ReplaceLoopOf(i, v) finds the sound object to update: the
\* wem index is in range and a sound object is registered for its id.
CanReplaceLoopOf(secs, i) ==
    /\ IndexSection(secs) # 0
    /\ ObjectSection(secs) # 0
    /\ 0 <= i
    /\ i < Len(secs[IndexSection(secs)].WemIds)
    /\ secs[IndexSection(secs)].WemIds[i + 1]
         \in DOMAIN secs[ObjectSection(secs)].wemToObject

\* File.ReplaceLoopOf(i, v) when it succeeds.
ReplaceLoopOf(secs, i, v) ==
    LET hi == ObjectSection(secs)
        hirc == secs[hi]
        id == secs[IndexSection(secs)].WemIds[i + 1]
        k == hirc.wemToObject[id]
        kept == [w \in DOMAIN hirc.loopOf \ {id} |-> hirc.loopOf[w]]
    IN  [secs EXCEPT ![hi] =
           [hirc EXCEPT
              !.objects[k].Structure = [loops |-> v.loops, loopCount |-> v.value],
              !.loopOf = IF v.loops THEN (id :> v.value) @@ kept ELSE kept]]

---------------------------------------------------------------------------
(* The files opened. *)

Trailer == << 11, 12 >>
\* The lengths of the wems of a bank: short ones that need padding and
\* ones that end on a boundary, in turn.
WemLens ==
    { [k \in 1..m |-> IF (k + a) % 2 = 0 THEN 3 ELSE wemAlignmentBytes] :
        m \in 1..MaxWems, a \in 0..1 }
\* The lengths of replacement wems: empty, short, and long and ending on a
\* boundary.
NewLens == {0, 3, 32}
Layouts == {"tight", "packed", "loose"}
LoopValues ==
    { [loops |-> FALSE, value |-> 0], [loops |-> TRUE, value |-> 23],
      [loops |-> TRUE, value |-> InfiniteLoops], [loops |-> TRUE, value |-> 2] }

SeqsUpTo(S, n) == UNION {[1..m -> S] : m \in 0..n}

\* The objects a generated HIRC section is made of.
ObjectSpecs ==
    { SoundSpec(1, FALSE, 0), SoundSpec(1, TRUE, 2),
      SoundSpec(1, TRUE, InfiniteLoops), SoundSpec(2, TRUE, 2),
      UnknownSpec(<< 5, 6 >>) }

Ids(n) == [k \in 1..n |-> WemIdOf(k)]

\* Banks that differ in their wems and in how the DATA body is laid out.
DataInputs ==
    { MkInput(Trailer, Ids(Len(lens)), lens, layout, 0,
              << SoundSpec(1, TRUE, 2) >>, "end") :
        lens \in WemLens, layout \in Layouts }

\* Banks that differ in their HIRC objects.
HierarchyInputs ==
    { MkInput(<< >>, Ids(2), << 3, 3 >>, "tight", 0, objs, "mid") :
        objs \in SeqsUpTo(ObjectSpecs, MaxObjs) }

\* A bank that embeds no wem, and files that are not well formed: a
\* repeated wem id, a first wem that does not start the DATA body, wems
\* that overlap, a DIDX body that is not a whole number of entries, a BKHD
\* header that declares less than the two fixed fields take, a HIRC body
\* that goes on after its last object.
OtherInputs ==
    { MkInput(Trailer, << >>, << >>, "tight", 0,
              << SoundSpec(1, FALSE, 0), UnknownSpec(<< >>) >>, "none"),
      MkInput(Trailer, << WemIdOf(1), WemIdOf(1) >>, << 3, 3 >>, "tight", 0,
              << SoundSpec(1, TRUE, 2) >>, "none"),
      MkInput(Trailer, Ids(2), << 3, 3 >>, "shifted", 0,
              << SoundSpec(1, TRUE, 2) >>, "none"),
      MkInput(Trailer, Ids(2), << 3, 3 >>, "overlap", 0,
              << SoundSpec(1, TRUE, 2) >>, "none"),
      MkInput(Trailer, Ids(2), << 3, 3 >>, "tight", 4,
              << SoundSpec(1, TRUE, 2) >>, "none"),
      [MkInput(<< >>, Ids(1), << 3 >>, "tight", 0,
               << SoundSpec(1, TRUE, 2) >>, "none")
         EXCEPT !.bkhdLen = BKHD_SECTION_BYTES \div 2],
      [MkInput(Trailer, Ids(1), << 3 >>, "tight", 0,
               << SoundSpec(1, TRUE, 2) >>, "end")
         EXCEPT !.slack = SECTION_HEADER_BYTES] }

Inputs == DataInputs \cup HierarchyInputs \cup OtherInputs

---------------------------------------------------------------------------
(* The viewer window of gui/viewer/viewer.go. Text is a sequence of        *)
(* one-character strings. An int of the program may take ten decimal       *)
(* digits, more than an integer of the checker holds, so the numbers of    *)
(* the loop field are kept as two halves of five decimal digits each:      *)
(* [hi, lo] stands for hi * 10^5 + lo.                                     *)

Half == 10 ^ 5
Num(hi, lo) == [hi |-> hi, lo |-> lo]
Small(n) == Num(0, n)
Less(a, b) == a.hi < b.hi \/ (a.hi = b.hi /\ a.lo < b.lo)
\* a - b, for b not above a.
Minus(a, b) ==
    IF a.lo >= b.lo THEN Num(a.hi - b.hi, a.lo - b.lo)
    ELSE Num(a.hi - b.hi - 1, a.lo + Half - b.lo)

\* math.MaxInt32, 2^32 and 2^33.
MaxInt32 == Num(21474, 83647)
TwoTo32 == Num(42949, 67296)
TwoTo33 == Num(85899, 34592)

\* uint32(value) of a non-negative int of at most ten digits: the value
\* modulo 2^32.
Uint32(n) ==
    IF Less(n, TwoTo32) THEN n
    ELSE IF Less(n, TwoTo33) THEN Minus(n, TwoTo32)
    ELSE Minus(n, TwoTo33)

Digits == << "0", "1", "2", "3", "4", "5", "6", "7", "8", "9" >>
IsDigit(c) == \E d \in 1..10 : Digits[d] = c
DigitOf(c) == (CHOOSE d \in 1..10 : Digits[d] = c) - 1

\* The number a sequence of at most ten digits denotes.
RECURSIVE Decimal(_, _)
Decimal(ds, acc) ==
    IF ds = << >> THEN acc
    ELSE LET low == acc.lo * 10 + DigitOf(Head(ds))
         IN  Decimal(Tail(ds), Num(acc.hi * 10 + low \div Half, low % Half))

\* strconv.Atoi(text) for an int of intSize bits: an optional sign and
\* then digits only, at least one; a value the int cannot hold is a range
\* error. [err, neg, n]: the error, the sign and the magnitude.
Atoi(text, intSize) ==
    LET signed == text # << >> /\ Head(text) \in {"+", "-"}
        ds == IF signed THEN Tail(text) ELSE text
        neg == signed /\ Head(text) = "-"
        n == Decimal(ds, Small(0))
    IN  IF ds = << >> \/ \E k \in 1..Len(ds) : ~IsDigit(ds[k])
          THEN [err |-> TRUE, neg |-> FALSE, n |-> Small(0)]
        ELSE IF intSize = 32 /\ Less(MaxInt32, n)
          THEN [err |-> TRUE, neg |-> neg, n |-> MaxInt32]
        ELSE [err |-> FALSE, neg |-> neg, n |-> n]

\* fmt.Sprintf("%d", n) of a loop count.
RECURSIVE Sprintf(_)
Sprintf(n) ==
    IF n < 10 THEN << Digits[n + 1] >>
    ELSE Sprintf(n \div 10) \o << Digits[(n % 10) + 1] >>

\* The stateChanged handlers of the two check boxes.
LoopStateChanged(w) ==
    IF w.checkboxLoop.checked
      THEN [w EXCEPT !.checkboxInfinity.enabled = TRUE,
                     !.lineEditLoop.enabled = ~w.checkboxInfinity.checked]
      ELSE [w EXCEPT !.checkboxInfinity.enabled = FALSE,
                     !.lineEditLoop.enabled = FALSE]

InfinityStateChanged(w) ==
    [w EXCEPT !.lineEditLoop.enabled = ~w.checkboxInfinity.checked]

\* QCheckBox.SetCheckState: stateChanged is emitted when the state changes.
SetLoopChecked(w, b) ==
    IF w.checkboxLoop.checked = b THEN w
    ELSE LoopStateChanged([w EXCEPT !.checkboxLoop.checked = b])

SetInfinityChecked(w, b) ==
    IF w.checkboxInfinity.checked = b THEN w
    ELSE InfinityStateChanged([w EXCEPT !.checkboxInfinity.checked = b])

clearLoopValues(w) ==
    LET w1 == [w EXCEPT !.lineEditLoop.text = << >>]
        w2 == SetInfinityChecked(w1, FALSE)
        w3 == SetLoopChecked(w2, FALSE)
    IN  [w3 EXCEPT !.loopToolBar = FALSE]

\* loop is b.LoopOf(wemIndex).
setLoopValues(w, loop) ==
    IF loop.loops
      THEN LET w1 == IF loop.value = InfiniteLoops
                       THEN SetInfinityChecked(
                              [w EXCEPT !.lineEditLoop.text = << >>], TRUE)
                       ELSE SetInfinityChecked(
                              [w EXCEPT !.lineEditLoop.text = Sprintf(loop.value)],
                              FALSE)
           IN  SetLoopChecked(w1, TRUE)
      ELSE LET w1 == [w EXCEPT !.lineEditLoop.text = << >>,
                               !.lineEditLoop.enabled = FALSE]
               w2 == SetInfinityChecked(w1, FALSE)
               w3 == [w2 EXCEPT !.checkboxInfinity.enabled = FALSE]
           IN  SetLoopChecked(w3, FALSE)

\* getSelectedRow: the first selected row, -1 when none is selected.
getSelectedRow(w) ==
    IF w.table.selection = {} THEN -1
    ELSE CHOOSE r \in w.table.selection : \A q \in w.table.selection : r <= q

NoCall == [kind |-> "none", index |-> -1, loops |-> FALSE, infinity |-> FALSE,
           value |-> Small(0), text |-> << >>, selection |-> {}, ctn |-> "none"]

\* New(): the window as constructed, in a build whose int has intSize
\* bits. call is the outcome of the last Update Loop (history).
New(intSize) ==
    [intSize |-> intSize,
     actionReplace |-> FALSE,
     loopToolBar |-> FALSE,
     checkboxLoop |-> [checked |-> FALSE],
     checkboxInfinity |-> [checked |-> FALSE, enabled |-> TRUE],
     lineEditLoop |-> [text |-> << >>, enabled |-> TRUE],
     table |-> [ctn |-> "none", rows |-> 0, selection |-> {}],
     call |-> NoCall]

NoOp == [op |-> "none", idx |-> 0, v |-> [loops |-> FALSE, value |-> 0],
         R |-> {}, len |-> 0, ok |-> TRUE]

Init ==
    /\ input \in Inputs
    /\ file = EncFile(input)
    /\ pos = 0
    /\ pc = "parse"
    /\ sections = << >>
    /\ heap = << >>
    /\ outs = << >>
    /\ pre = [sections |-> << >>, heap |-> << >>]
    /\ last = NoOp
    /\ nmut = 0
    /\ replaced = FALSE
    /\ gen = 0
    /\ wv = New(64)

---------------------------------------------------------------------------
(* NewFile: sections are read one after the other until the source is      *)
(* exhausted; each header is dispatched on its tag.                        *)

\* One turn of the loop whose header carries the tag, built by New.
ParseSection(tag, r) ==
    /\ pc = "parse"
    /\ pos + SECTION_HEADER_BYTES <= Len(file)
    /\ tag
    /\ pc' = IF r.st = "ok" THEN "parse" ELSE r.st
    /\ pos' = r.pos
    /\ sections' = IF r.st = "ok" THEN Append(sections, r.sec) ELSE sections
    /\ UNCHANGED <<file, input, outs, pre, last, nmut, replaced, gen, wv>>

Hdr == ReadHeader(pos)
Body == pos + SECTION_HEADER_BYTES

ParseBankHeader ==
    /\ ParseSection(Hdr.Identifier = bkhdHeaderId, NewBankHeaderSection(Hdr, Body))
    /\ UNCHANGED heap

ParseDataIndex ==
    LET r == NewDataIndexSection(Hdr, Body, heap)
    IN  /\ ParseSection(Hdr.Identifier = didxHeaderId, r)
        /\ heap' = IF r.st = "ok" THEN r.heap ELSE heap

ParseData ==
    LET idx == IF IndexSection(sections) = 0 THEN << >>
               ELSE sections[IndexSection(sections)]
        r == NewDataSection(Hdr, Body, idx, heap)
    IN  /\ ParseSection(Hdr.Identifier = dataHeaderId, r)
        /\ heap' = IF r.st = "ok" THEN r.heap ELSE heap

ParseObjectHierarchy ==
    /\ ParseSection(Hdr.Identifier = hircHeaderId, NewObjectHierarchySection(Hdr, Body))
    /\ UNCHANGED heap

ParseUnknown ==
    /\ ParseSection(Hdr.Identifier \notin
                      {bkhdHeaderId, didxHeaderId, dataHeaderId, hircHeaderId},
                    NewUnknownSection(Hdr, Body))
    /\ UNCHANGED heap

\* The header read meets the end of the source: io.EOF ends the loop, a
\* header cut short is an error.
ParseEnd ==
    /\ pc = "parse"
    /\ pos + SECTION_HEADER_BYTES > Len(file)
    /\ pc' = IF pos >= Len(file) THEN "ready" ELSE "error"
    /\ UNCHANGED <<file, input, pos, sections, heap, outs, pre, last, nmut,
                   replaced, gen, wv>>

---------------------------------------------------------------------------
(* The operations on an opened container. *)

WriteTo ==
    /\ pc = "ready"
    /\ gen = 0
    /\ Len(outs) < MaxWrites
    /\ LET w == FileWriteTo(sections, heap)
       IN  /\ outs' = Append(outs, w.out)
           /\ sections' = w.secs
    /\ UNCHANGED <<file, input, pos, pc, heap, pre, last, nmut, replaced, gen,
                   wv>>

DoReplaceWems ==
    /\ pc = "ready"
    /\ gen = 0
    /\ nmut < MaxMut
    /\ DataSection(sections) # 0
    /\ \E R \in SUBSET (0..(Len(Wems(sections)) - 1)), newLen \in NewLens :
         LET r == ReplaceWems(sections, heap, R, newLen, Sample.fill + nmut)
         IN  /\ sections' = r.secs
             /\ heap' = r.heap
             /\ last' = [NoOp EXCEPT !.op = "replace", !.R = R, !.len = newLen]
    /\ pre' = [sections |-> sections, heap |-> heap]
    /\ outs' = << >>
    /\ nmut' = nmut + 1
    /\ replaced' = TRUE
    /\ UNCHANGED <<file, input, pos, pc, gen, wv>>

DoReplaceLoopOf ==
    /\ pc = "ready"
    /\ gen = 0
    /\ nmut < MaxMut
    /\ \E i \in 0..Len(Wems(sections)), v \in LoopValues :
         /\ sections' = IF CanReplaceLoopOf(sections, i)
                          THEN ReplaceLoopOf(sections, i, v) ELSE sections
         /\ last' = [NoOp EXCEPT !.op = "loop", !.idx = i, !.v = v,
                                 !.ok = CanReplaceLoopOf(sections, i)]
    /\ pre' = [sections |-> sections, heap |-> heap]
    /\ outs' = << >>
    /\ nmut' = nmut + 1
    /\ UNCHANGED <<file, input, pos, pc, heap, replaced, gen, wv>>

\* The container is written and the bytes written are parsed again
\* (rereadFile); the container parsed from them is only inspected.
Reread ==
    /\ pc = "ready"
    /\ gen = 0
    /\ file' = FileWriteTo(sections, heap).out
    /\ pos' = 0
    /\ pc' = "parse"
    /\ sections' = << >>
    /\ heap' = << >>
    /\ outs' = << >>
    /\ gen' = 1
    /\ last' = [NoOp EXCEPT !.op = "reread"]
    /\ UNCHANGED <<input, pre, nmut, replaced, wv>>

Next ==
    \/ ParseBankHeader
    \/ ParseDataIndex
    \/ ParseData
    \/ ParseObjectHierarchy
    \/ ParseUnknown
    \/ ParseEnd
    \/ WriteTo
    \/ DoReplaceWems
    \/ DoReplaceLoopOf
    \/ Reread

Spec == Init /\ [][Next]_vars

---------------------------------------------------------------------------
(* The viewer window: the events of its widgets. The container behind the  *)
(* table is not looked into; what LoopOf returns for a row is an input.    *)

coreVars == <<file, input, pos, pc, sections, heap, outs, pre, last, nmut,
              replaced, gen>>

\* The texts typed into the loop field, of at most MaxLength characters.
MaxLength == 10
Texts ==
    { << >>, << "1" >>, << "2" >>, << "2", "3" >>, << "-", "5" >>,
      << "2", "x" >>,
      << "2", "1", "4", "7", "4", "8", "3", "6", "4", "8" >>,
      << "4", "2", "9", "4", "9", "6", "7", "2", "9", "6" >>,
      << "4", "2", "9", "4", "9", "6", "7", "2", "9", "7" >>,
      << "9", "9", "9", "9", "9", "9", "9", "9", "9", "9" >> }

\* The int of the build has 32 or 64 bits.
IntSizes == {32, 64}

InitViewer ==
    /\ input = MkInput(Trailer, Ids(1), << 3 >>, "tight", 0,
                       << SoundSpec(1, TRUE, 2) >>, "none")
    /\ file = EncFile(input)
    /\ pos = 0
    /\ pc = "parse"
    /\ sections = << >>
    /\ heap = << >>
    /\ outs = << >>
    /\ pre = [sections |-> << >>, heap |-> << >>]
    /\ last = NoOp
    /\ nmut = 0
    /\ replaced = FALSE
    /\ gen = 0
    /\ \E intSize \in IntSizes : wv = New(intSize)

\* openCtn(path): kind is what the path turns out to be, a SoundBank, a
\* File Package, or a file that cannot be loaded; loading a container
\* gives the table a new model, in which no row is selected.
openCtn(w, kind, rows) ==
    IF kind \in {"bnk", "pck"}
      THEN [w EXCEPT !.table = [ctn |-> kind, rows |-> rows, selection |-> {}]]
      ELSE w

\* The Open action, for a dialog that returned a path.
ActionOpen ==
    /\ \E kind \in {"bnk", "pck", "bad"}, rows \in 0..MaxRows :
         wv' = clearLoopValues(openCtn(wv, kind, rows))
    /\ UNCHANGED coreVars

\* onWemSelected, once the table has the new selection: selected tells
\* whether the change selected any row; loop is LoopOf of the selected row.
onWemSelected(w, selected, loop) ==
    IF ~selected THEN [w EXCEPT !.actionReplace = FALSE]
    ELSE LET w1 == [w EXCEPT !.actionReplace = TRUE]
         IN  IF w1.table.ctn = "bnk"
               THEN setLoopValues([w1 EXCEPT !.loopToolBar = TRUE], loop)
               ELSE w1

\* The user clicks a row that is not selected.
SelectRow ==
    /\ \E row \in 0..(wv.table.rows - 1), loop \in LoopValues :
         /\ row \notin wv.table.selection
         /\ wv' = onWemSelected([wv EXCEPT !.table.selection = {row}], TRUE, loop)
    /\ UNCHANGED coreVars

\* The user takes a selected row out of the selection (Ctrl and click).
DeselectRow ==
    /\ \E row \in wv.table.selection, loop \in LoopValues :
         wv' = onWemSelected([wv EXCEPT !.table.selection = @ \ {row}], FALSE, loop)
    /\ UNCHANGED coreVars

\* The user clicks a check box or types into the loop field; a widget
\* takes input only when it and the tool bar it sits in are enabled.
ToggleLoop ==
    /\ wv.loopToolBar
    /\ wv' = SetLoopChecked(wv, ~wv.checkboxLoop.checked)
    /\ UNCHANGED coreVars

ToggleInfinity ==
    /\ wv.loopToolBar /\ wv.checkboxInfinity.enabled
    /\ wv' = SetInfinityChecked(wv, ~wv.checkboxInfinity.checked)
    /\ UNCHANGED coreVars

EditLoop ==
    /\ wv.loopToolBar /\ wv.lineEditLoop.enabled
    /\ \E text \in Texts :
         /\ Len(text) <= MaxLength
         /\ text # wv.lineEditLoop.text
         /\ wv' = [wv EXCEPT !.lineEditLoop.text = text]
    /\ UNCHANGED coreVars

\* The Update Loop action: what it does with the table, recorded in call.
ActionSetLoop ==
    /\ wv.loopToolBar
    /\ LET wemIndex == getSelectedRow(wv)
           loops == wv.checkboxLoop.checked
           infinity == loops /\ wv.checkboxInfinity.checked
           lineEditText == wv.lineEditLoop.text
           a == Atoi(lineEditText, wv.intSize)
           parsed == loops /\ ~infinity
           tooSmall == a.neg \/ Less(a.n, Small(2))
           value == IF parsed THEN a.n ELSE Small(0)
           said == [NoCall EXCEPT !.index = wemIndex, !.loops = loops,
                                  !.infinity = infinity, !.text = lineEditText,
                                  !.selection = wv.table.selection,
                                  !.ctn = wv.table.ctn]
       IN  IF parsed /\ (a.err \/ tooSmall)
             THEN wv' = [wv EXCEPT !.call = [said EXCEPT !.kind = "error"]]
             ELSE wv' = [wv EXCEPT !.call = [said EXCEPT !.kind = "update",
                                                        !.value = Uint32(value)]]
    /\ UNCHANGED coreVars

NextViewer ==
    \/ ActionOpen
    \/ SelectRow
    \/ DeselectRow
    \/ ToggleLoop
    \/ ToggleInfinity
    \/ EditLoop
    \/ ActionSetLoop

SpecViewer == InitViewer /\ [][NextViewer]_vars

---------------------------------------------------------------------------
(* Properties. *)

HasRepeatedId(in) ==
    \E j, k \in 1..Len(in.wems) : j # k /\ in.wems[j].id = in.wems[k].id

\* The wems tile the DATA body: the first starts it, each next one starts
\* at or after the end of the one before, and the last ends within it.
Contiguous(in) ==
    LET n == Len(in.wems)
    IN  IF n = 0 THEN in.dataLen = 0
        ELSE /\ in.wems[1].off = 0
             /\ \A k \in 1..(n - 1) :
                  in.wems[k].off + in.wems[k].len <= in.wems[k + 1].off
             /\ in.wems[n].off + in.wems[n].len <= in.dataLen

\* A well-formed file: the BKHD header declares the size of its body, wem
\* ids are distinct, the DIDX body is a whole number of entries, the wems
\* tile the DATA body and the objects fill the HIRC body.
WellFormed(in) ==
    /\ in.bkhdLen = BKHD_SECTION_BYTES + Len(in.trailer)
    /\ in.slack = 0
    /\ ~HasRepeatedId(in)
    /\ in.junk = 0
    /\ Contiguous(in)

\* Every reader of a section, for the cursor checks.
ReadersOf(sec) ==
    CASE sec.kind = "BKHD" -> {sec.RemainingReader}
      [] sec.kind = "UNKN" -> {sec.Reader}
      [] sec.kind = "DATA" ->
           {sec.Wems[k].Reader : k \in 1..Len(sec.Wems)}
             \cup {sec.Wems[k].Padding : k \in 1..Len(sec.Wems)}
      [] OTHER -> {}

\* C1. Round-trip identity: a well-formed file parses without error, and
\* the container parsed from it, written before any mutation, yields
\* exactly the bytes of the file.
C1_RoundTrip ==
    (gen = 0 /\ WellFormed(input)) =>
        /\ pc \in {"parse", "ready"}
        /\ (pc = "ready" /\ nmut = 0 /\ outs # << >>) => outs[1] = file

\* A bank with three wems (one needing padding), an unrecognised section
\* and a BKHD trailer has been parsed and written back unchanged.
C1_Witness ==
    /\ gen = 0 /\ pc = "ready" /\ nmut = 0 /\ WellFormed(input)
    /\ Len(input.wems) = 3 /\ input.layout = "loose" /\ input.unk = "end"
    /\ input.trailer # << >>
    /\ outs # << >> /\ outs[1] = file /\ Len(file) > 100

\* C2. Double-serialization idempotence: two WriteTo calls on the same
\* container with no mutation in between write the same bytes, and a write
\* leaves every byte range (BKHD trailer, wem payload, padding, unknown
\* body) positioned at its start for the next one.
C2_WriteTwice ==
    (pc = "ready" /\ outs # << >>) =>
        /\ \A k \in 1..Len(outs) : outs[k] = outs[1]
        /\ \A j \in 1..Len(sections) : \A r \in ReadersOf(sections[j]) : r.cur = 0

\* A container with a BKHD trailer, wems, padding and an unknown section
\* has been replaced into and then written twice.
C2_Witness ==
    /\ pc = "ready" /\ Len(outs) = 2 /\ outs[2] = outs[1]
    /\ nmut > 0 /\ replaced
    /\ input.trailer # << >> /\ input.unk # "none"
    /\ Len(Wems(sections)) >= 2
    /\ \E k \in 1..Len(Wems(sections)) : Size(Wems(sections)[k].Padding) > 0

\* The wems of the container with their descriptors read through the heap.
Offset(k) == heap[Wems(sections)[k].Descriptor].Offset
Length(k) == heap[Wems(sections)[k].Descriptor].Length
WemId(k) == heap[Wems(sections)[k].Descriptor].WemId
PaddingSize(k) == Size(Wems(sections)[k].Padding)
NWems == Len(Wems(sections))

\* C3. Alignment post-condition: once ReplaceWems has been called, every
\* wem's offset is a multiple of 16 and its padding size p has
\* 0 <= p < 16, in the container itself and in the one parsed from the
\* bytes it writes.
C3_Alignment ==
    (replaced /\ pc = "ready") =>
        \A k \in 1..NWems :
            /\ Offset(k) % wemAlignmentBytes = 0
            /\ 0 <= PaddingSize(k)
            /\ PaddingSize(k) < wemAlignmentBytes

\* A bank whose wems were packed without padding has had wems replaced,
\* was written and parsed again, and its three wems are now padded.
C3_Witness ==
    /\ replaced /\ pc = "ready" /\ gen = 1
    /\ input.layout = "packed" /\ NWems = 3
    /\ PaddingSize(1) > 0 /\ Offset(2) > 0 /\ Offset(3) > Offset(2)

\* C4. Length accounting: once ReplaceWems has been called, the lengths and
\* padding sizes of all wems add up to the Length of the DATA header, in the
\* container itself and in the one parsed from the bytes it writes.
C4_LengthAccounting ==
    (replaced /\ pc = "ready" /\ DataSection(sections) # 0) =>
        SumSeq([k \in 1..NWems |-> Length(k) + PaddingSize(k)])
          = sections[DataSection(sections)].Header.Length

\* Two of three wems were replaced by longer ones, which changed the
\* Length of the DATA header.
C4_Witness ==
    /\ pc = "ready" /\ gen = 0 /\ last.op = "replace"
    /\ last.R = {0, 2} /\ last.len = 32 /\ NWems = 3
    /\ sections[DataSection(sections)].Header.Length
         # pre.sections[DataSection(sections)].Header.Length
    /\ PaddingSize(2) > 0

\* The wems of the container before the last mutating call.
PreWems == Wems(pre.sections)
PreOffset(k) == pre.heap[PreWems[k].Descriptor].Offset
PreLength(k) == pre.heap[PreWems[k].Descriptor].Length
PreWemId(k) == pre.heap[PreWems[k].Descriptor].WemId
PrePaddingSize(k) == Size(PreWems[k].Padding)

\* The wems before the first index a ReplaceWems call names (all of them
\* when it names none).
Before(R) == {k \in 1..Len(PreWems) : \A r \in R : k - 1 < r}

\* What a ReplaceWems call keeps of every container: the number and order
\* of the wems and their ids, the payload of the wems it does not name,
\* and the bytes the BKHD and HIRC sections serialize to.
ReplaceKeeps ==
    /\ NWems = Len(PreWems)
    /\ \A k \in 1..NWems :
         /\ Wems(sections)[k].Descriptor = PreWems[k].Descriptor
         /\ WemId(k) = PreWemId(k)
         /\ (k - 1) \notin last.R =>
              /\ Remaining(Wems(sections)[k].Reader) = Remaining(PreWems[k].Reader)
              /\ Len(Remaining(PreWems[k].Reader)) = PreLength(k)
    /\ Len(sections) = Len(pre.sections)
    /\ \A j \in 1..Len(sections) :
         sections[j].kind \in {"BKHD", "HIRC"} =>
           SectionWriteTo(sections[j], heap).out
             = SectionWriteTo(pre.sections[j], pre.heap).out

SameLayout(k) ==
    /\ Offset(k) = PreOffset(k)
    /\ Length(k) = PreLength(k)
    /\ PaddingSize(k) = PrePaddingSize(k)

\* Wem k was laid out as ReplaceWems lays wems out: at the start of the
\* DATA body or on the boundary after the wem before it, and padded up to
\* the next boundary only (not at all when it is the last).
LaidOut(k) ==
    /\ PreOffset(k) = IF k = 1 THEN 0
                      ELSE AlignUp(PreOffset(k - 1) + PreLength(k - 1))
    /\ PrePaddingSize(k) =
         IF k = Len(PreWems) THEN 0
         ELSE AlignUp(PreOffset(k) + PreLength(k)) - (PreOffset(k) + PreLength(k))

OwnerSpec(in, i) ==
    LET ks == {k \in 1..Len(in.objs) :
                  in.objs[k].kind = "sound" /\ in.objs[k].wem = in.wems[i + 1].id}
    IN  CHOOSE k \in ks : \A j \in ks : j <= k

\* The structure of a file that differs from in only in the loop fields of
\* one object.
WithLoop(in, k, v) ==
    [in EXCEPT !.objs[k] = [@ EXCEPT !.loops = v.loops, !.count = v.value]]

\* C6. Loop update is independent of prior state: after a successful
\* ReplaceLoopOf(i, v) on a freshly parsed file, WriteTo yields the bytes of
\* the file whose owning object carries exactly {loops: v.loops,
\* loopCount: v.value}, whatever loop state the object had before.
C6_LoopUpdate ==
    (gen = 0 /\ pc = "ready" /\ nmut = 1 /\ last.op = "loop" /\ last.ok
       /\ WellFormed(input)) =>
        LET hirc == sections[ObjectSection(sections)]
            id == sections[IndexSection(sections)].WemIds[last.idx + 1]
        IN  /\ hirc.objects[hirc.wemToObject[id]].Structure
                 = [loops |-> last.v.loops, loopCount |-> last.v.value]
            /\ outs # << >> =>
                 outs[1] = EncFile(WithLoop(input, OwnerSpec(input, last.idx), last.v))

\* An object that looped for ever was set to loop 23 times and the
\* container written; the bytes differ from the file opened.
C6_Witness ==
    /\ gen = 0 /\ pc = "ready" /\ nmut = 1 /\ last.op = "loop" /\ last.ok
    /\ WellFormed(input) /\ outs # << >> /\ outs[1] # file
    /\ last.v = [loops |-> TRUE, value |-> 23]
    /\ Len(input.objs) = 2
    /\ input.objs[OwnerSpec(input, last.idx)].loops
    /\ input.objs[OwnerSpec(input, last.idx)].count = InfiniteLoops

Distinct(seq) == \A j, k \in 1..Len(seq) : j # k => seq[j] # seq[k]

\* C7. Unique-id enforcement: a DIDX body in which a wem id is repeated
\* makes NewDataIndexSection panic and no section is built; a section that
\* is built lists Length / 12 pairwise distinct ids in file order, and
\* DescriptorMap holds exactly one descriptor, its own, for each.
C7_UniqueIds ==
    /\ (gen = 0 /\ HasRepeatedId(input)) =>
          /\ IndexSection(sections) = 0
          /\ pc \in {"parse", "panic"}
          /\ pc = "parse" => pos <= Len(EncBKHD(input))
    /\ \A j \in 1..Len(sections) :
          sections[j].kind = "DIDX" =>
            LET sec == sections[j]
            IN  /\ Distinct(sec.WemIds)
                /\ Len(sec.WemIds) = sec.Header.Length \div DIDX_ENTRY_BYTES
                /\ DOMAIN sec.DescriptorMap = {sec.WemIds[k] : k \in 1..Len(sec.WemIds)}
                /\ \A k \in 1..Len(sec.WemIds) :
                     heap[sec.DescriptorMap[sec.WemIds[k]]].WemId = sec.WemIds[k]
                /\ Cardinality({sec.DescriptorMap[w] : w \in DOMAIN sec.DescriptorMap})
                     = Len(sec.WemIds)
                /\ gen = 0 =>
                     sec.WemIds = [k \in 1..Len(input.wems) |-> input.wems[k].id]

\* The DIDX of a file that repeats a wem id has been read: a panic, and
\* the container holds the BKHD section only.
C7_Witness ==
    /\ gen = 0 /\ HasRepeatedId(input) /\ pc = "panic"
    /\ Len(sections) = 1 /\ sections[1].kind = "BKHD"
    /\ pos > Len(EncBKHD(input))

\* C8. Unknown-data preservation: a section with an unrecognised tag holds
\* a range of exactly Header.Length bytes at its body and writes its 8
\* header bytes and that range as they are in the source; an object of an
\* unrecognised type writes its descriptor and its declared-size body as
\* they are in the source; this stays so under every mutation.
C8_UnknownPreserved ==
    /\ \A j \in 1..Len(sections) :
          sections[j].kind = "UNKN" =>
            LET sec == sections[j]
                at == sec.Reader.off - SECTION_HEADER_BYTES
            IN  /\ sec.Reader.src = FILE_SRC
                /\ Size(sec.Reader) = sec.Header.Length
                /\ SectionWriteTo(sec, heap).out
                     = Slice(file, at, at + SECTION_HEADER_BYTES + sec.Header.Length)
    /\ \A j \in 1..Len(sections) :
          sections[j].kind = "HIRC" =>
            \A k \in 1..Len(sections[j].objects) :
              LET obj == sections[j].objects[k]
              IN  obj.kind = "unknown" =>
                    /\ Len(obj.Data) = obj.Descriptor.Length
                    /\ ObjectWriteTo(obj)
                         = Slice(file, obj.at,
                                 obj.at + OBJECT_DESCRIPTOR_BYTES + obj.Descriptor.Length)
    /\ (gen = 0 /\ pc = "ready" /\ WellFormed(input)) =>
          /\ input.unk # "none" =>
               \E j \in 1..Len(sections) :
                 /\ sections[j].kind = "UNKN"
                 /\ SectionWriteTo(sections[j], heap).out = EncSTID
          /\ \A k \in 1..Len(input.objs) :
               input.objs[k].kind = "unknown" =>
                 ObjectWriteTo(sections[ObjectSection(sections)].objects[k])
                   = EncObject(input, input.objs[k])

\* A bank with an unknown section and an unknown object has had a wem
\* replaced and a loop set, and still holds both as they were read.
C8_Witness ==
    /\ gen = 0 /\ pc = "ready" /\ nmut = 2 /\ replaced /\ last.op = "loop" /\ last.ok
    /\ \E j \in 1..Len(sections) :
          /\ sections[j].kind = "UNKN"
          /\ SectionWriteTo(sections[j], heap).out = EncSTID
    /\ \E k \in 1..Len(input.objs) :
          /\ input.objs[k].kind = "unknown"
          /\ sections[ObjectSection(sections)].objects[k].Data = << 5, 6 >>

\* The wem at index i (0-based) of a container has an owning sound object:
\* the index is in range and some sound object of the HIRC section carries
\* the wem's id.
Owned(secs, i) ==
    /\ IndexSection(secs) # 0
    /\ ObjectSection(secs) # 0
    /\ 0 <= i
    /\ i < Len(secs[IndexSection(secs)].WemIds)
    /\ \E k \in SoundObjects(secs[ObjectSection(secs)].objects) :
         secs[ObjectSection(secs)].objects[k].WemDescriptor.WemId
           = secs[IndexSection(secs)].WemIds[i + 1]

\* C9. ReplaceLoopOf with an index out of range, or the index of a wem no
\* sound object owns, reports failure and leaves the container and the
\* bytes it writes as they were.
C9_LoopFails ==
    (last.op = "loop" /\ gen = 0 /\ pc = "ready"
       /\ ~Owned(pre.sections, last.idx)) =>
        /\ ~last.ok
        /\ sections = pre.sections
        /\ heap = pre.heap
        /\ FileWriteTo(sections, heap).out = FileWriteTo(pre.sections, pre.heap).out

\* ReplaceLoopOf was called for the second wem of a bank whose only sound
\* object owns the first: it failed.
C9_Witness ==
    /\ last.op = "loop" /\ gen = 0 /\ pc = "ready" /\ ~last.ok
    /\ last.idx = 1 /\ NWems = 2
    /\ ObjectSection(sections) # 0
    /\ SoundObjects(sections[ObjectSection(sections)].objects) # {}
    /\ ~Owned(pre.sections, 1) /\ Owned(pre.sections, 0)

\* The offset, in the bytes a HIRC section writes, of the loop structure of
\* its k-th object (a sound object).
LoopFieldAt(sec, k) ==
    SECTION_HEADER_BYTES + OBJECT_COUNT_BYTES
      + SumSeq([j \in 1..(k - 1) |-> Len(ObjectWriteTo(sec.objects[j]))])
      + OBJECT_DESCRIPTOR_BYTES + DIDX_ENTRY_BYTES

\* C10. ReplaceLoopOf frame: a successful ReplaceLoopOf(i, v) sets the loop
\* structure of one sound object that owns the wem at index i and changes
\* nothing else: not another object, not the object count or a section
\* header, not a byte the HIRC section writes outside that loop
\* structure, and no other section or descriptor.
C10_LoopFrame ==
    (last.op = "loop" /\ last.ok /\ gen = 0 /\ pc = "ready") =>
        LET hi == ObjectSection(pre.sections)
            old == pre.sections[hi]
            new == sections[hi]
            id == pre.sections[IndexSection(pre.sections)].WemIds[last.idx + 1]
            a == SectionWriteTo(old, pre.heap).out
            b == SectionWriteTo(new, heap).out
        IN  /\ Len(sections) = Len(pre.sections)
            /\ heap = pre.heap
            /\ \A j \in 1..Len(sections) : j # hi => sections[j] = pre.sections[j]
            /\ new.Header = old.Header
            /\ new.ObjectCount = old.ObjectCount
            /\ new.wemToObject = old.wemToObject
            /\ \E k \in SoundObjects(old.objects) :
                 /\ old.objects[k].WemDescriptor.WemId = id
                 /\ new.objects =
                      [old.objects EXCEPT ![k].Structure =
                         [loops |-> last.v.loops, loopCount |-> last.v.value]]
                 /\ Len(a) = Len(b)
                 /\ \A q \in 1..Len(a) :
                      (q <= LoopFieldAt(old, k) \/ q > LoopFieldAt(old, k) + 5)
                        => a[q] = b[q]

\* Of two sound objects, the one that owns the first wem had its loop
\* structure changed; the other kept its own.
C10_Witness ==
    /\ last.op = "loop" /\ last.ok /\ gen = 0 /\ pc = "ready" /\ last.idx = 0
    /\ LET hi == ObjectSection(sections)
       IN  /\ Len(sections[hi].objects) = 2
           /\ SoundObjects(sections[hi].objects) = {1, 2}
           /\ sections[hi].objects[1].Structure # pre.sections[hi].objects[1].Structure
           /\ sections[hi].objects[2] = pre.sections[hi].objects[2]
           /\ sections[hi].objects[2].WemDescriptor.WemId = WemIdOf(2)

---------------------------------------------------------------------------
(* The DATA section as NewDataSection builds it.                           *)

\* The DATA section of the container is as the parse built it.
AsParsed == DataSection(sections) # 0 /\ (gen = 1 \/ ~replaced)

DataHeaderLength == sections[DataSection(sections)].Header.Length

\* C11 as stated. Data section invariant at parse: in every DataSection
\* built by NewDataSection the lengths and padding sizes of the wems add up
\* to the Length of the DATA header, and no padding size is negative.
C11_Original ==
    AsParsed =>
        /\ SumSeq([k \in 1..NWems |-> Length(k) + PaddingSize(k)])
             = DataHeaderLength
        /\ \A k \in 1..NWems : PaddingSize(k) >= 0

\* What NewDataSection guarantees instead: the paddings are the signed
\* gaps to the next offset (to the section end for the last wem), so the
\* sum falls short of the header's Length by the first wem's offset; on a
\* file whose wems tile the DATA body the invariant holds.
C11_Parse ==
    (AsParsed /\ NWems > 0) =>
        /\ \A k \in 1..NWems :
             PaddingSize(k) =
               (IF k = NWems THEN DataHeaderLength ELSE Offset(k + 1))
                 - (Offset(k) + Length(k))
        /\ SumSeq([k \in 1..NWems |-> Length(k) + PaddingSize(k)])
             = DataHeaderLength - Offset(1)
        /\ (gen = 0 /\ Contiguous(input)) =>
             /\ Offset(1) = 0
             /\ \A k \in 1..NWems : PaddingSize(k) >= 0

\* A bank whose two wems overlap has been parsed: the first wem's padding
\* has a negative size.
C11_Witness ==
    /\ gen = 0 /\ pc = "ready" /\ ~replaced /\ input.layout = "overlap"
    /\ NWems = 2 /\ PaddingSize(1) < 0

---------------------------------------------------------------------------
(* The Data Index and the Data section share their descriptors.            *)

Index == sections[IndexSection(sections)]

\* The bytes of the DATA body as DataSection.WriteTo emits them.
WrittenDataBody ==
    LET out == DataSectionWriteTo(sections[DataSection(sections)]).out
    IN  Slice(out, SECTION_HEADER_BYTES, Len(out))

\* C12. Data Index and Data section agree: the descriptor of the wem at
\* position k is the record DescriptorMap[WemIds[k]] of the Data Index, so
\* after the parse and after every ReplaceWems call the DIDX section writes
\* the (id, offset, length) of the wems of the DATA section in their
\* order; the length is the size of the wem's payload, and the offset is
\* where the payload lies in the DATA body (of the source as parsed, of
\* the bytes written once wems were replaced).
C12_SharedDescriptors ==
    DataSection(sections) # 0 =>
        /\ IndexSection(sections) # 0
        /\ Len(Index.WemIds) = NWems
        /\ DataIndexSectionWriteTo(Index, heap).out
             = WriteHeader(Index.Header)
                 \o Concat([k \in 1..NWems |->
                      LE32(WemId(k)) \o LE32(Offset(k)) \o LE32(Length(k))])
        /\ \A k \in 1..NWems :
             /\ Wems(sections)[k].Descriptor = Index.DescriptorMap[Index.WemIds[k]]
             /\ WemId(k) = Index.WemIds[k]
             /\ Size(Wems(sections)[k].Reader) = Length(k)
             /\ AsParsed =>
                  Wems(sections)[k].Reader.off
                    = sections[DataSection(sections)].DataStart + Offset(k)
             /\ (replaced /\ gen = 0) =>
                  Slice(WrittenDataBody, Offset(k), Offset(k) + Length(k))
                    = Remaining(Wems(sections)[k].Reader)

\* Two ReplaceWems calls were made on a bank of three wems: the offsets of
\* the second and third wem moved, and the DIDX section writes the new
\* ones.
C12_Witness ==
    /\ pc = "ready" /\ gen = 0 /\ nmut = 2 /\ last.op = "replace"
    /\ NWems = 3 /\ last.R = {0} /\ last.len = 32
    /\ Offset(2) # PreOffset(2) /\ Offset(3) # PreOffset(3)
    /\ Slice(DataIndexSectionWriteTo(Index, heap).out, 24, 28) = LE32(Offset(2))

---------------------------------------------------------------------------
(* The lookup maps of the Object Hierarchy.                                *)

Hirc == sections[ObjectSection(sections)]

\* loopOf and wemToObject say the same of wem id w: it has a loop count
\* exactly when the sound object registered for it loops, and then that
\* object's count.
LoopInSync(w) ==
    LET obj == Hirc.objects[Hirc.wemToObject[w]]
    IN  /\ (w \in DOMAIN Hirc.loopOf) <=> obj.Structure.loops
        /\ obj.Structure.loops => Hirc.loopOf[w] = obj.Structure.loopCount

\* C13 as stated. The lookup maps of the Object Hierarchy are consistent
\* with the object list after the parse and after every ReplaceLoopOf
\* call: loopOf has a wem id exactly when the sound object registered for
\* it in wemToObject loops, with that object's loop count; an id with no
\* registered object has no loop count.
C13_Original ==
    ObjectSection(sections) # 0 =>
        /\ DOMAIN Hirc.loopOf \subseteq DOMAIN Hirc.wemToObject
        /\ \A w \in DOMAIN Hirc.wemToObject : LoopInSync(w)

\* Every wem id is named by at most one sound object of the file.
OneObjectPerWem(in) ==
    \A j, k \in 1..Len(in.objs) :
        (in.objs[j].kind = "sound" /\ in.objs[k].kind = "sound"
           /\ in.objs[j].wem = in.objs[k].wem) => j = k

\* What holds instead: the maps are consistent when no two sound objects
\* of the file name the same wem, and for the wem a successful
\* ReplaceLoopOf call has just updated; wemToObject always names a sound
\* object that carries the id.
C13_Consistent ==
    ObjectSection(sections) # 0 =>
        /\ DOMAIN Hirc.loopOf \subseteq DOMAIN Hirc.wemToObject
        /\ \A w \in DOMAIN Hirc.wemToObject :
             /\ Hirc.wemToObject[w] \in SoundObjects(Hirc.objects)
             /\ Hirc.objects[Hirc.wemToObject[w]].WemDescriptor.WemId = w
             /\ OneObjectPerWem(input) => LoopInSync(w)
        /\ (last.op = "loop" /\ last.ok) =>
             LoopInSync(Index.WemIds[last.idx + 1])

\* A bank in which a looping sound object is followed by one of the same
\* wem that does not loop has been parsed: loopOf still carries the loop
\* count of the first, wemToObject names the second.
C13_Witness ==
    /\ pc = "ready" /\ gen = 0 /\ nmut = 0 /\ ObjectSection(sections) # 0
    /\ Len(Hirc.objects) = 2 /\ SoundObjects(Hirc.objects) = {1, 2}
    /\ \E w \in DOMAIN Hirc.wemToObject :
         /\ Hirc.wemToObject[w] = 2
         /\ ~Hirc.objects[2].Structure.loops
         /\ Hirc.objects[1].Structure.loops
         /\ w \in DOMAIN Hirc.loopOf
         /\ Hirc.loopOf[w] = Hirc.objects[1].Structure.loopCount

---------------------------------------------------------------------------
(* The trailer of the Bank Header.                                         *)

\* The BKHD section of the container: the first section of every file.
Bkhd == sections[1]
BkhdBody == SECTION_HEADER_BYTES

\* C14 as stated. For every declared BKHD length L, the trailer is a range
\* of exactly L - 8 bytes that starts right after the two fixed fields and
\* ends within the section body, and BankHeaderSection.WriteTo emits
\* 8 + L bytes.
C14_Original ==
    (sections # << >> /\ gen = 0) =>
        /\ Bkhd.kind = "BKHD"
        /\ Size(Bkhd.RemainingReader) = Bkhd.Header.Length - BKHD_SECTION_BYTES
        /\ Bkhd.RemainingReader.off = BkhdBody + BKHD_SECTION_BYTES
        /\ Bkhd.RemainingReader.off + Size(Bkhd.RemainingReader)
             <= BkhdBody + Bkhd.Header.Length
        /\ Len(BankHeaderSectionWriteTo(Bkhd).out)
             = SECTION_HEADER_BYTES + Bkhd.Header.Length

\* What holds instead: the same, for a declared length of at least the 8
\* bytes of the fixed fields; the trailer always starts right after them.
C14_Trailer ==
    (sections # << >> /\ gen = 0) =>
        /\ Bkhd.kind = "BKHD"
        /\ Bkhd.RemainingReader.off = BkhdBody + BKHD_SECTION_BYTES
        /\ Bkhd.Header.Length >= BKHD_SECTION_BYTES =>
             /\ Size(Bkhd.RemainingReader)
                  = Bkhd.Header.Length - BKHD_SECTION_BYTES
             /\ Bkhd.RemainingReader.off + Size(Bkhd.RemainingReader)
                  = BkhdBody + Bkhd.Header.Length
             /\ Len(BankHeaderSectionWriteTo(Bkhd).out)
                  = SECTION_HEADER_BYTES + Bkhd.Header.Length

\* A bank whose BKHD header declares 4 bytes has been parsed: the trailer
\* covers the rest of the file, no further section was read, and the
\* section writes the whole file.
C14_Witness ==
    /\ pc = "ready" /\ gen = 0 /\ Len(sections) = 1 /\ Bkhd.kind = "BKHD"
    /\ Bkhd.Header.Length = 4
    /\ Size(Bkhd.RemainingReader) > Len(file)
    /\ BankHeaderSectionWriteTo(Bkhd).out = file
    /\ Len(file) > SECTION_HEADER_BYTES + Bkhd.Header.Length

---------------------------------------------------------------------------
(* Section framing during the scan of NewFile.                             *)

\* The bytes the sections read so far take in the source by their headers:
\* 8 bytes of header and Length bytes of body each.
Framed ==
    SumSeq([j \in 1..Len(sections) |->
              SECTION_HEADER_BYTES + sections[j].Header.Length])

\* The body of section sec is all its constructor reads: a BKHD body holds
\* the fixed fields, a DIDX body is a whole number of entries, the objects
\* of a HIRC body fill it.
BodyConsumed(sec) ==
    CASE sec.kind = "BKHD" -> sec.Header.Length >= BKHD_SECTION_BYTES
      [] sec.kind = "DIDX" -> sec.Header.Length % DIDX_ENTRY_BYTES = 0
      [] sec.kind = "HIRC" ->
           Len(ObjectHierarchySectionWriteTo(sec).out)
             = SECTION_HEADER_BYTES + sec.Header.Length
      [] OTHER -> TRUE

\* C15 as stated. Section framing: after every constructor that returns
\* without error the source is Length bytes after the start of the
\* section's body, so that the sections read so far take exactly the bytes
\* their headers declare and the next read is the next header; also for a
\* DIDX length that is not a multiple of 12 and for HIRC objects that do
\* not fill the section.
C15_Original ==
    (pc = "parse" /\ gen = 0) => pos = Framed

\* What holds instead: NewDataSection and NewUnknownSection leave the
\* source at the end of the body; the other constructors leave it where
\* they stopped reading, which is the end of the body only when the body
\* is all they read.
C15_Framing ==
    (pc = "parse" /\ gen = 0
       /\ \A j \in 1..Len(sections) : BodyConsumed(sections[j])) =>
        pos = Framed

\* A bank whose DIDX header counts 4 bytes after its two entries: after
\* the DIDX section the source is 4 bytes short of the DATA header.
C15_Witness ==
    /\ pc = "parse" /\ gen = 0 /\ input.junk = 4 /\ Len(sections) = 2
    /\ sections[2].kind = "DIDX" /\ Len(sections[2].WemIds) = 2
    /\ pos + input.junk = Framed
    /\ Slice(file, Framed, Framed + 4) = dataHeaderId

\* A bank whose HIRC header counts 8 bytes after its only object: after
\* the HIRC section the source is at those bytes, not at the next header.
C15_WitnessHirc ==
    /\ pc = "parse" /\ gen = 0 /\ input.slack > 0
    /\ sections # << >> /\ sections[Len(sections)].kind = "HIRC"
    /\ pos + input.slack = Framed
    /\ Slice(file, Framed, Framed + 4) = stidHeaderId

---------------------------------------------------------------------------
(* The Update Loop action of the viewer.                                   *)

\* The integer a text denotes, whatever the width of int.
Typed(text) == Atoi(text, 64)
IsIntAtLeast2(text) ==
    /\ ~Typed(text).err /\ ~Typed(text).neg
    /\ ~Less(Typed(text).n, Small(2))

FiniteRequest(c) == c.kind # "none" /\ c.loops /\ ~c.infinity

\* C16 as stated. Viewer loop validation: when Loop is checked and
\* Infinity is not, the loop count passed to UpdateLoop is the integer
\* typed and is at least 2, and a text that is not an integer of at least
\* 2 shows the error and updates nothing.
C16_Original ==
    FiniteRequest(wv.call) =>
        /\ wv.call.kind = "update" =>
             /\ IsIntAtLeast2(wv.call.text)
             /\ wv.call.value = Typed(wv.call.text).n
             /\ ~Less(wv.call.value, Small(2))
        /\ ~IsIntAtLeast2(wv.call.text) => wv.call.kind = "error"

\* What holds instead: the count passed is the integer typed taken modulo
\* 2^32, which is the integer typed only below 2^32; where int has 32
\* bits the claim holds, since larger integers are range errors.
C16_Validated ==
    FiniteRequest(wv.call) =>
        /\ wv.call.kind = "update" =>
             /\ IsIntAtLeast2(wv.call.text)
             /\ wv.call.value = Uint32(Typed(wv.call.text).n)
             /\ (Less(Typed(wv.call.text).n, TwoTo32) \/ wv.intSize = 32) =>
                  /\ wv.call.value = Typed(wv.call.text).n
                  /\ ~Less(wv.call.value, Small(2))
        /\ ~IsIntAtLeast2(wv.call.text) => wv.call.kind = "error"

\* With Loop checked and Infinity not, 4294967296 was typed and Update
\* Loop pressed: UpdateLoop received the count 0, the infinite loop.
C16_Witness ==
    /\ wv.call.kind = "update" /\ wv.call.loops /\ ~wv.call.infinity
    /\ wv.call.text = << "4", "2", "9", "4", "9", "6", "7", "2", "9", "6" >>
    /\ wv.call.value = Small(InfiniteLoops)
    /\ wv.intSize = 64

\* C17 as stated. Viewer selection safety: UpdateLoop is only invoked with
\* the index of a selected row of a loaded SoundBank, never -1; whenever
\* the loop tool bar is enabled a row of a SoundBank is selected.
C17_Original ==
    /\ wv.call.kind = "update" =>
         /\ wv.call.index # -1
         /\ wv.call.index \in wv.call.selection
         /\ wv.call.ctn = "bnk"
    /\ wv.loopToolBar =>
         /\ wv.table.ctn = "bnk"
         /\ wv.table.selection # {}

\* What holds instead: the tool bar is enabled only while a SoundBank is
\* loaded, and UpdateLoop gets the selected row when there is one and -1
\* when there is none.
C17_Selection ==
    /\ wv.loopToolBar => wv.table.ctn = "bnk"
    /\ wv.call.kind = "update" =>
         /\ wv.call.ctn = "bnk"
         /\ wv.call.index = -1 <=> wv.call.selection = {}
         /\ wv.call.index # -1 => wv.call.index \in wv.call.selection

\* A row of a SoundBank was selected and deselected, and Update Loop was
\* pressed: UpdateLoop received the index -1.
C17_Witness ==
    /\ wv.call.kind = "update" /\ wv.call.ctn = "bnk"
    /\ wv.call.index = -1 /\ wv.call.selection = {}
    /\ wv.loopToolBar /\ wv.table.selection = {}

====
